---- MODULE Spec2Model ----
(***************************************************************************)
(* The card game "No Thanks" of src/src/main.rs: the game state machine    *)
(* (NoThanksGame), its scoring function, and the two drivers self_play and *)
(* with_humans, the latter with its replay of passes from the checkpoint   *)
(* game_at_last_card.                                                      *)
(*                                                                         *)
(* usize values are kept as their residue modulo 2^64 in the signed range  *)
(* (2^64 - 1 is written -1): additions and subtractions are then the       *)
(* machine's, `as i64` is the identity, and the unsigned comparison is     *)
(* ULt below.  Whether an overflowing usize operation panics or wraps      *)
(* is decided by the build (overflow_checks).                              *)
(***************************************************************************)
EXTENDS Integers, Sequences, FiniteSets, TLC

VARIABLES
    players,            \* the drivers' argument: the number of players
    game,               \* the driver's local `game`
    game_at_last_card,  \* with_humans' checkpoint
    which_player,       \* with_humans' argument: the seat the search plays
    tokens,             \* with_humans' local: Some(total typed in this iteration)
    overflow_checks,    \* TRUE: debug build (overflow panics), FALSE: release (wraps)
    pc                  \* "start" | "loop" | "done" | "panicked"

vars == <<players, game, game_at_last_card, which_player, tokens, overflow_checks, pc>>

-----------------------------------------------------------------------------
(* Constants of the program *)

LOW_CARD == 3
HIGH_CARD == 35
DISCARDED_CARDS == 9
NUM_CARDS == HIGH_CARD - LOW_CARD + 1

(* Bounds of the exploration (not of the program) *)

\* self_play, whole game: the last EndgameCards cards are played freely, the
\* cards before them are dealt lowest-first and taken at once.
EndgameCards == 1
\* self_play, whole game: in the endgame the card dealt is one of the
\* EndgameChoices lowest cards still unowned.
EndgameChoices == 2
\* the largest number of players a driver is started with.
MaxPlayersArg == 8
\* self_play, opening: the first OpeningCards cards are played, each dealt
\* among the indices below OpeningRange, with at most OpeningPasses passes.
OpeningCards == 3
OpeningRange == 4
OpeningPasses == 2
\* with_humans: cards typed in, and the largest consistent total reported.
HumanCards == 2
MaxReport == 3

-----------------------------------------------------------------------------
(* Option<usize> *)

None == << >>
Some(x) == << x >>
unwrap(o) == o[1]

(* usize arithmetic on residues *)

ULt(a, b) == IF (a < 0) = (b < 0) THEN a < b ELSE b < 0
AddOverflows(a, b) ==
    IF a >= 0 /\ b >= 0 THEN FALSE
    ELSE IF a < 0 /\ b < 0 THEN TRUE
    ELSE a + b >= 0
SubOverflows(a, b) == ULt(a, b)

(* enum Move *)

Pass == [kind |-> "Pass"]
Take == [kind |-> "Take"]
NextCard(c) == [kind |-> "NextCard", card |-> c]

(* enum Player *)

Random == [kind |-> "Random"]
Player(i) == [kind |-> "Player", index |-> i]

Range(s) == {s[k] : k \in DOMAIN s}
len(v) == Cardinality(DOMAIN v)

-----------------------------------------------------------------------------
(* impl NoThanksGame *)

PlayerCounts == {3, 4, 5, 6, 7}

\* Variant: the last arm of the match reads 7 | 8.
starting_tokens_arm_with_8(num_players) ==
    CASE num_players \in {3, 4, 5} -> Some(11)
      [] num_players = 6 -> Some(9)
      [] num_players \in {7, 8} -> Some(7)
      [] OTHER -> None

\* The match of lines 72-77: Some(tokens), or None where it panics.
starting_tokens_arm(num_players) ==
    CASE num_players \in {3, 4, 5} -> Some(11)
      [] num_players = 6 -> Some(9)
      [] num_players = 7 -> Some(7)
      [] OTHER -> None

starting_tokens(num_players) == unwrap(starting_tokens_arm(num_players))

new(num_players) ==
    [active_tokens |-> 0,
     active_card   |-> None,
     active_player |-> 0,
     cards_taken   |-> 0,
     player_tokens |-> [p \in 0..(num_players - 1) |-> starting_tokens(num_players)],
     card_owners   |-> [c \in 0..(NUM_CARDS - 1) |-> None]]

\* Variant: the comparison is strict.
is_terminal_strict(g) == ULt(NUM_CARDS - DISCARDED_CARDS, g.cards_taken)

is_terminal(g) == ~ULt(g.cards_taken, NUM_CARDS - DISCARDED_CARDS)

RECURSIVE ScoreScan(_, _, _, _)
ScoreScan(owners, i, last_owner, scores) ==
    IF i = NUM_CARDS THEN scores
    ELSE LET owner == owners[i] IN
         IF owner = last_owner
         THEN ScoreScan(owners, i + 1, last_owner, scores)
         ELSE ScoreScan(owners, i + 1, owner,
                  IF owner = None THEN scores
                  ELSE [scores EXCEPT ![unwrap(owner)] = @ + (i + LOW_CARD)])

\* Variant: last_owner is only updated by an owned card.
RECURSIVE ScoreScanSticky(_, _, _, _)
ScoreScanSticky(owners, i, last_owner, scores) ==
    IF i = NUM_CARDS THEN scores
    ELSE LET owner == owners[i] IN
         IF owner = last_owner \/ owner = None
         THEN ScoreScanSticky(owners, i + 1, last_owner, scores)
         ELSE ScoreScanSticky(owners, i + 1, owner,
                  [scores EXCEPT ![unwrap(owner)] = @ + (i + LOW_CARD)])

compute_scores_sticky_owner(g) ==
    ScoreScanSticky(g.card_owners, 0, None,
                    [p \in DOMAIN g.player_tokens |-> -(g.player_tokens[p])])

\* Variant: the scores start from the reserves, not from their negation.
compute_scores_plus_tokens(g) ==
    ScoreScan(g.card_owners, 0, None,
              [p \in DOMAIN g.player_tokens |-> g.player_tokens[p]])

compute_scores(g) ==
    ScoreScan(g.card_owners, 0, None,
              [p \in DOMAIN g.player_tokens |-> -(g.player_tokens[p])])

-----------------------------------------------------------------------------
(* impl GameState for NoThanksGame *)

current_player(g) ==
    IF g.active_card = None THEN Random ELSE Player(g.active_player)

RECURSIVE UnownedFrom(_, _)
UnownedFrom(owners, i) ==
    IF i = NUM_CARDS THEN << >>
    ELSE IF owners[i] = None
         THEN <<NextCard(i)>> \o UnownedFrom(owners, i + 1)
         ELSE UnownedFrom(owners, i + 1)

\* Variant: the chance node does not look at is_terminal.
available_moves_ignoring_terminal(g) ==
    IF g.active_card = None
    THEN UnownedFrom(g.card_owners, 0)
    ELSE IF g.player_tokens[g.active_player] # 0
         THEN <<Pass, Take>>
         ELSE <<Take>>

\* Variant: the player node does not look at the reserve.
available_moves_always_pass(g) ==
    IF g.active_card = None
    THEN IF ~is_terminal(g) THEN UnownedFrom(g.card_owners, 0) ELSE << >>
    ELSE <<Pass, Take>>

\* Variant: the chance node offers every card, owned or not.
available_moves_with_owned(g) ==
    IF g.active_card = None
    THEN IF ~is_terminal(g)
         THEN [k \in 1..NUM_CARDS |-> NextCard(k - 1)]
         ELSE << >>
    ELSE IF g.player_tokens[g.active_player] # 0
         THEN <<Pass, Take>>
         ELSE <<Take>>

available_moves(g) ==
    IF g.active_card = None
    THEN IF ~is_terminal(g) THEN UnownedFrom(g.card_owners, 0) ELSE << >>
    ELSE IF g.player_tokens[g.active_player] # 0
         THEN <<Pass, Take>>
         ELSE <<Take>>

\* The outcome of a call that may panic: the state it leaves, or a panic.
Ok(g) == [ok |-> TRUE, game |-> g]
Panic(g) == [ok |-> FALSE, game |-> g]

\* Variant: revealing a card also moves the turn on.
MoveNextCardAdvancing(g, card) ==
    Ok([g EXCEPT !.active_card = Some(card),
                 !.active_player = (@ + 1) % len(g.player_tokens)])

MoveNextCard(g, card) == Ok([g EXCEPT !.active_card = Some(card)])

\* Variant: the passer's reserve is not debited.
MovePassNoDebit(g) ==
    LET p == g.active_player IN
    IF overflow_checks /\ AddOverflows(g.active_tokens, 1)
    THEN Panic(g)
    ELSE Ok([g EXCEPT !.active_tokens = @ + 1,
                      !.active_player = (p + 1) % len(g.player_tokens)])

\* Variant: the turn stays with the passer.
MovePassNoAdvance(g) ==
    LET p == g.active_player IN
    IF overflow_checks /\ (AddOverflows(g.active_tokens, 1)
                           \/ SubOverflows(g.player_tokens[p], 1))
    THEN Panic(g)
    ELSE Ok([g EXCEPT !.active_tokens = @ + 1,
                      !.player_tokens[p] = @ - 1])

MovePass(g) ==
    LET p == g.active_player IN
    IF overflow_checks /\ (AddOverflows(g.active_tokens, 1)
                           \/ SubOverflows(g.player_tokens[p], 1))
    THEN Panic(g)
    ELSE Ok([g EXCEPT !.active_tokens = @ + 1,
                      !.player_tokens[p] = @ - 1,
                      !.active_player = (p + 1) % len(g.player_tokens)])

\* Variant: the take passes the turn on, as a pass does.
MoveTakeAdvancing(g) ==
    LET p == g.active_player IN
    IF overflow_checks /\ AddOverflows(g.player_tokens[p], g.active_tokens)
    THEN Panic(g)
    ELSE IF g.active_card = None THEN Panic(g)
    ELSE IF unwrap(g.active_card) \notin DOMAIN g.card_owners THEN Panic(g)
    ELSE Ok([g EXCEPT !.player_tokens[p] = @ + g.active_tokens,
                      !.active_tokens = 0,
                      !.card_owners[unwrap(g.active_card)] = Some(p),
                      !.active_card = None,
                      !.cards_taken = @ + 1,
                      !.active_player = (p + 1) % len(g.player_tokens)])

\* Variant: the taker is not credited with the tokens on the card.
MoveTakeNoCredit(g) ==
    IF g.active_card = None THEN Panic(g)
    ELSE IF unwrap(g.active_card) \notin DOMAIN g.card_owners THEN Panic(g)
    ELSE Ok([g EXCEPT !.active_tokens = 0,
                      !.card_owners[unwrap(g.active_card)] = Some(g.active_player),
                      !.active_card = None,
                      !.cards_taken = @ + 1])

\* Variant: the tokens stay on the table after the take.
MoveTakeKeepsPot(g) ==
    LET p == g.active_player IN
    IF overflow_checks /\ AddOverflows(g.player_tokens[p], g.active_tokens)
    THEN Panic(g)
    ELSE IF g.active_card = None THEN Panic(g)
    ELSE IF unwrap(g.active_card) \notin DOMAIN g.card_owners THEN Panic(g)
    ELSE Ok([g EXCEPT !.player_tokens[p] = @ + g.active_tokens,
                      !.card_owners[unwrap(g.active_card)] = Some(p),
                      !.active_card = None,
                      !.cards_taken = @ + 1])

\* Variant: the owner of the card is not recorded.
MoveTakeNoOwner(g) ==
    LET p == g.active_player IN
    IF overflow_checks /\ AddOverflows(g.player_tokens[p], g.active_tokens)
    THEN Panic(g)
    ELSE IF g.active_card = None THEN Panic(g)
    ELSE IF unwrap(g.active_card) \notin DOMAIN g.card_owners THEN Panic(g)
    ELSE Ok([g EXCEPT !.player_tokens[p] = @ + g.active_tokens,
                      !.active_tokens = 0,
                      !.active_card = None,
                      !.cards_taken = @ + 1])

\* Variant: cards_taken is not counted up.
MoveTakeNoCount(g) ==
    LET p == g.active_player IN
    IF overflow_checks /\ AddOverflows(g.player_tokens[p], g.active_tokens)
    THEN Panic(g)
    ELSE IF g.active_card = None THEN Panic(g)
    ELSE IF unwrap(g.active_card) \notin DOMAIN g.card_owners THEN Panic(g)
    ELSE Ok([g EXCEPT !.player_tokens[p] = @ + g.active_tokens,
                      !.active_tokens = 0,
                      !.card_owners[unwrap(g.active_card)] = Some(p),
                      !.active_card = None])

MoveTake(g) ==
    LET p == g.active_player IN
    IF overflow_checks /\ AddOverflows(g.player_tokens[p], g.active_tokens)
    THEN Panic(g)
    ELSE IF g.active_card = None THEN Panic(g)
    ELSE IF unwrap(g.active_card) \notin DOMAIN g.card_owners THEN Panic(g)
    ELSE Ok([g EXCEPT !.player_tokens[p] = @ + g.active_tokens,
                      !.active_tokens = 0,
                      !.card_owners[unwrap(g.active_card)] = Some(p),
                      !.active_card = None,
                      !.cards_taken = @ + 1])

make_move(g, mov) ==
    CASE mov.kind = "NextCard" -> MoveNextCard(g, mov.card)
      [] mov.kind = "Pass" -> MovePass(g)
      [] mov.kind = "Take" -> MoveTake(g)

-----------------------------------------------------------------------------
(* fn self_play: the chance node draws any available move, the search      *)
(* returns any available move (both are inputs); Explore(g, mov) is the    *)
(* part of those inputs a specification explores.                          *)

UnownedBelow(g, c) ==
    Cardinality({d \in 0..(NUM_CARDS - 1) : d < c /\ g.card_owners[d] = None})

InEndgame(g) == g.cards_taken >= NUM_CARDS - DISCARDED_CARDS - EndgameCards

WholeGame(g, mov) ==
    CASE mov.kind = "NextCard" ->
             UnownedBelow(g, mov.card) < (IF InEndgame(g) THEN EndgameChoices ELSE 1)
      [] mov.kind = "Pass" -> InEndgame(g)
      [] mov.kind = "Take" -> TRUE

Opening(g, mov) ==
    CASE mov.kind = "NextCard" ->
             g.cards_taken < OpeningCards /\ mov.card < OpeningRange
      [] mov.kind = "Pass" -> g.active_tokens < OpeningPasses
      [] mov.kind = "Take" -> TRUE

Apply(mov) ==
    LET r == make_move(game, mov) IN
    /\ IF r.ok THEN game' = r.game /\ pc' = pc
               ELSE game' = game /\ pc' = "panicked"
    /\ UNCHANGED <<players, game_at_last_card, which_player, tokens, overflow_checks>>

SelfPlayChance(mov) ==
    /\ pc = "loop"
    /\ ~is_terminal(game)
    /\ current_player(game) = Random
    /\ mov \in Range(available_moves(game))
    /\ Apply(mov)

SelfPlayPlayer(best_move) ==
    /\ pc = "loop"
    /\ ~is_terminal(game)
    /\ current_player(game) # Random
    /\ best_move \in Range(available_moves(game))
    /\ best_move.kind # "NextCard"
    /\ Apply(best_move)

SelfPlayDone ==
    /\ pc = "loop"
    /\ is_terminal(game)
    /\ pc' = "done"
    /\ UNCHANGED <<players, game, game_at_last_card, which_player, tokens, overflow_checks>>

SelfPlayInit ==
    /\ players \in PlayerCounts
    /\ game = new(players)
    /\ game_at_last_card = new(players)
    /\ which_player = 0
    /\ tokens = None
    /\ overflow_checks \in BOOLEAN
    /\ pc = "loop"

Init == SelfPlayInit

Next ==
    \/ \E mov \in Range(available_moves(game)) :
          WholeGame(game, mov) /\ SelfPlayChance(mov)
    \/ \E best_move \in Range(available_moves(game)) :
          WholeGame(game, best_move) /\ SelfPlayPlayer(best_move)
    \/ SelfPlayDone

Spec == Init /\ [][Next]_vars

\* self_play runs its loop without waiting for anything: a step that can be
\* taken is taken.
FairSpec == Init /\ [][Next]_vars /\ WF_vars(Next)

OpeningNext ==
    \/ \E mov \in Range(available_moves(game)) :
          Opening(game, mov) /\ SelfPlayChance(mov)
    \/ \E best_move \in Range(available_moves(game)) :
          Opening(game, best_move) /\ SelfPlayPlayer(best_move)

OpeningSpec == Init /\ [][OpeningNext]_vars

\* Line 238: NoThanksGame::new(players), which panics in the last arm of its
\* match; no game exists before it, nor after a panic.
new_or_panic(num_players) ==
    IF starting_tokens_arm(num_players) = None
    THEN Panic(None)
    ELSE Ok(new(num_players))

SelfPlayStart ==
    /\ pc = "start"
    /\ LET r == new_or_panic(players) IN
       IF r.ok THEN /\ game' = r.game
                    /\ game_at_last_card' = r.game
                    /\ pc' = "loop"
               ELSE /\ pc' = "panicked"
                    /\ UNCHANGED <<game, game_at_last_card>>
    /\ UNCHANGED <<players, which_player, tokens, overflow_checks>>

SetupInit ==
    /\ players \in 0..MaxPlayersArg
    /\ game = None
    /\ game_at_last_card = None
    /\ which_player = 0
    /\ tokens = None
    /\ overflow_checks \in BOOLEAN
    /\ pc = "start"

SetupNext ==
    \/ SelfPlayStart
    \/ pc = "loop" /\ Next

SetupSpec == SetupInit /\ [][SetupNext]_vars

-----------------------------------------------------------------------------
(* fn with_humans: the card typed in and the total reported are inputs     *)
(* (get_input_number), the search returns any available move.              *)

\* Card values typed in: one below the deck, the lowest cards of the deck,
\* one above the deck.
TypedCards ==
    {LOW_CARD - 1} \cup (LOW_CARD..(LOW_CARD + HumanCards - 1)) \cup {HIGH_CARD + 1}

\* Totals typed in: the small ones, and one more than all the tokens of the game.
ReportedTotals(g) ==
    (0..MaxReport) \cup {len(g.player_tokens) * starting_tokens(len(g.player_tokens)) + 1}

RECURSIVE PassUntil(_, _)
PassUntil(r, typed) ==
    IF ~r.ok THEN r
    ELSE IF ULt(r.game.active_tokens, typed)
         THEN PassUntil(make_move(r.game, Pass), typed)
         ELSE r

\* Variant: the loop runs while active_tokens <= tokens.
ReconstructOnePassMore(checkpoint, typed) ==
    LET r == PassUntil(Ok(checkpoint), typed + 1) IN
    IF r.ok THEN make_move(r.game, Take) ELSE r

\* Lines 324-327: the passes replayed on the checkpoint, then the take.
Reconstruct(checkpoint, typed) ==
    LET r == PassUntil(Ok(checkpoint), typed) IN
    IF r.ok THEN make_move(r.game, Take) ELSE r

\* Variant: the checkpoint is not refreshed when a card is typed in.
HumanCardInputNoCheckpoint ==
    /\ pc = "loop"
    /\ ~is_terminal(game)
    /\ current_player(game) = Random
    /\ game.cards_taken < HumanCards
    /\ \E card \in TypedCards :
          IF overflow_checks /\ SubOverflows(card, 3)
          THEN /\ pc' = "panicked"
               /\ UNCHANGED game
          ELSE LET r == make_move(game, NextCard(card - 3)) IN
               /\ game' = r.game
               /\ pc' = pc
    /\ tokens' = None
    /\ UNCHANGED <<players, game_at_last_card, which_player, overflow_checks>>

HumanCardInput ==
    /\ pc = "loop"
    /\ ~is_terminal(game)
    /\ current_player(game) = Random
    /\ game.cards_taken < HumanCards
    /\ \E card \in TypedCards :
          IF overflow_checks /\ SubOverflows(card, 3)
          THEN /\ pc' = "panicked"
               /\ UNCHANGED <<game, game_at_last_card>>
          ELSE LET r == make_move(game, NextCard(card - 3)) IN
               /\ game' = r.game
               /\ game_at_last_card' = r.game
               /\ pc' = pc
    /\ tokens' = None
    /\ UNCHANGED <<players, which_player, overflow_checks>>

\* Lines 295-320: the move of the seat to play; found_best_move and the
\* outcome of the make_move it calls.
SeatMoves(g) ==
    IF g.active_player = which_player
    THEN {IF best_move.kind = "Pass"
          THEN [found_best_move |-> FALSE, r |-> make_move(g, Pass)]
          ELSE [found_best_move |-> TRUE, r |-> Ok(g)]
          : best_move \in Range(available_moves(g))}
    ELSE IF g.player_tokens[g.active_player] = 0
         THEN {[found_best_move |-> TRUE, r |-> make_move(g, Take)]}
         ELSE {[found_best_move |-> FALSE, r |-> make_move(g, Pass)]}

HumanPlayerTurn ==
    /\ pc = "loop"
    /\ ~is_terminal(game)
    /\ current_player(game) # Random
    /\ \E m \in SeatMoves(game) :
          IF ~m.r.ok
          THEN /\ pc' = "panicked"
               /\ tokens' = None
               /\ UNCHANGED <<game, game_at_last_card>>
          ELSE IF ~m.found_best_move
          THEN /\ game' = m.r.game
               /\ tokens' = None
               /\ UNCHANGED <<game_at_last_card, pc>>
          ELSE \E typed \in ReportedTotals(game) :
                  LET rec == Reconstruct(game_at_last_card, typed) IN
                  /\ tokens' = Some(typed)
                  /\ IF rec.ok
                     THEN /\ game_at_last_card' = rec.game
                          /\ game' = rec.game
                          /\ pc' = pc
                     ELSE /\ pc' = "panicked"
                          /\ UNCHANGED <<game, game_at_last_card>>
    /\ UNCHANGED <<players, which_player, overflow_checks>>

\* The games with_humans is explored on: the fewest and the most players.
HumanPlayerCounts == {3, 7}

HumanInit ==
    /\ players \in HumanPlayerCounts
    /\ game = new(players)
    /\ game_at_last_card = new(players)
    /\ which_player \in {0, players - 1}
    /\ tokens = None
    /\ overflow_checks \in BOOLEAN
    /\ pc = "loop"

HumanNext ==
    \/ HumanCardInput
    \/ HumanPlayerTurn

HumanSpec == HumanInit /\ [][HumanNext]_vars

-----------------------------------------------------------------------------
(* Properties *)

RECURSIVE SumUpTo(_, _)
SumUpTo(v, k) == IF k < 0 THEN 0 ELSE v[k] + SumUpTo(v, k - 1)
SumTokens(g) == SumUpTo(g.player_tokens, len(g.player_tokens) - 1)

NumPlayers(g) == len(g.player_tokens)
AllTokens(g) == NumPlayers(g) * starting_tokens(NumPlayers(g))

\* The step applied a Take / a Pass / a NextCard to `game`.
TakeStep == game'.cards_taken = game.cards_taken + 1
PassStep == game'.active_tokens = game.active_tokens + 1
RevealStep == game.active_card = None /\ game'.active_card # None

\* C1: in every state of a game played by available moves, the players'
\* reserves and the tokens on the card add up to what new(n) handed out.
C1_TokenConservation ==
    SumTokens(game) + game.active_tokens = AllTokens(game)

\* C1 witness: the game is over and a player who took a card with tokens on
\* it holds more than the starting allotment.
C1_Witness ==
    /\ is_terminal(game)
    /\ \E p \in DOMAIN game.player_tokens :
          game.player_tokens[p] > starting_tokens(NumPlayers(game))

\* C2: available_moves is empty exactly in the terminal states; a
\* non-terminal chance state offers a NextCard, and a state with a card
\* revealed is not terminal.
C2_EmptyIffTerminal ==
    /\ (available_moves(game) = << >>) <=> is_terminal(game)
    /\ (current_player(game) = Random /\ ~is_terminal(game))
          => \E mov \in Range(available_moves(game)) : mov.kind = "NextCard"
    /\ current_player(game) # Random => ~is_terminal(game)

\* C2 witness: the terminal state, where no move is available.
C2_Witness ==
    /\ is_terminal(game)
    /\ available_moves(game) = << >>
    /\ pc = "loop"

\* C3: cards_taken never exceeds NUM_CARDS - DISCARDED_CARDS = 24,
\* is_terminal holds exactly at 24, and it becomes true on the Take that
\* raises cards_taken from 23 to 24.
C3_TerminalAt24 ==
    /\ [](/\ game.cards_taken <= NUM_CARDS - DISCARDED_CARDS
          /\ is_terminal(game) <=> (game.cards_taken = 24))
    /\ [][(~is_terminal(game) /\ is_terminal(game'))
            => /\ game.cards_taken = 23
               /\ game'.cards_taken = 24
               /\ game.active_card # None
               /\ game'.active_card = None]_vars

\* C3 witness: the 24th card has been taken.
C3_Witness == game.cards_taken = 24 /\ is_terminal(game)

\* C4: with a card revealed, Take is always available, Pass is available
\* exactly when the active player's reserve is positive, and no reserve
\* ever goes below zero (no wrap-around, no overflow panic).
C4_ForcedTake ==
    /\ game.active_card # None =>
          /\ Take \in Range(available_moves(game))
          /\ (Pass \in Range(available_moves(game)))
                <=> ULt(0, game.player_tokens[game.active_player])
          /\ (game.player_tokens[game.active_player] = 0
                => available_moves(game) = <<Take>>)
    /\ \A p \in DOMAIN game.player_tokens :
          game.player_tokens[p] \in 0..AllTokens(game)
    /\ pc # "panicked"

\* C4 witness: a card is revealed to a player whose reserve is zero.
C4_Witness ==
    /\ game.active_card # None
    /\ game.player_tokens[game.active_player] = 0
    /\ pc = "loop"

\* C5 as stated: a Take by player p leaves active_player = (p + 1) mod n.
C5_TakeAdvancesTurn ==
    [][TakeStep => game'.active_player
                     = (game.active_player + 1) % NumPlayers(game)]_vars

\* C5 amended: a Take by player p leaves active_player = p, and the next
\* NextCard hands the decision to that same player, the taker.
C5_TakeKeepsTurn ==
    [][/\ TakeStep => /\ game'.active_player = game.active_player
                      /\ game'.card_owners[unwrap(game.active_card)]
                           = Some(game'.active_player)
       /\ RevealStep => current_player(game') = Player(game.active_player)]_vars

\* C5 witness: the first card was taken by a player other than player 0, and
\* the second card has just been revealed to that same player.
C5_Witness ==
    /\ game.cards_taken = 1
    /\ game.active_card # None
    /\ game.active_tokens = 0
    /\ game.active_player # 0
    /\ \E c \in DOMAIN game.card_owners :
          game.card_owners[c] = Some(game.active_player)

\* The cards of player i that start a run: owned by i, the card below not.
RunStarts(g, i) ==
    {c \in DOMAIN g.card_owners :
        /\ g.card_owners[c] = Some(i)
        /\ (c = 0 \/ g.card_owners[c - 1] # Some(i))}

RECURSIVE SumFaces(_)
SumFaces(S) ==
    IF S = {} THEN 0
    ELSE LET c == CHOOSE x \in S : TRUE IN (c + LOW_CARD) + SumFaces(S \ {c})

ReferenceScore(g, i) == SumFaces(RunStarts(g, i)) - g.player_tokens[i]

\* C6: for every player i, compute_scores gives minus the reserve plus, for
\* every maximal run of consecutive cards owned by i, the face value of the
\* lowest card of the run.
C6_ScoresCollapseRuns ==
    compute_scores(game) = [i \in DOMAIN game.player_tokens |-> ReferenceScore(game, i)]

\* C6 witness: a player owns three consecutive cards v, v+1, v+2 and nothing
\* else, and is scored v minus the reserve.
C6_Witness ==
    \E i \in DOMAIN game.player_tokens : \E c \in 0..(NUM_CARDS - 3) :
        /\ \A d \in DOMAIN game.card_owners :
              (game.card_owners[d] = Some(i)) <=> (d \in c..(c + 2))
        /\ compute_scores(game)[i] = (c + LOW_CARD) - game.player_tokens[i]

\* The state of the three-player scenario before its Take: new(3), then
\* NextCard(3), then the passes of players 0 and 1.
ScenarioBeforeTake ==
    /\ NumPlayers(game) = 3
    /\ game.cards_taken = 0
    /\ game.active_card = Some(3)
    /\ game.active_tokens = 2
ScenarioTake == ScenarioBeforeTake /\ TakeStep
ScenarioState(g) ==
    /\ g.player_tokens = [p \in 0..2 |-> IF p = 2 THEN 13 ELSE 10]
    /\ g.active_card = None
    /\ g.cards_taken = 1
    /\ g.card_owners[3] = Some(2)

\* C7 as stated: the scenario ends with reserves 10, 10, 13, no card
\* revealed, one card taken, and scores -10, -10, 19.
C7_ScenarioAsStated ==
    [][ScenarioTake =>
          /\ ScenarioState(game')
          /\ compute_scores(game') = [p \in 0..2 |-> IF p = 2 THEN 19 ELSE -10]]_vars

\* C7 amended: the scenario ends with reserves 10, 10, 13, no card revealed,
\* one card taken (card 6, by player 2), and scores -10, -10, 6 - 13 = -7.
C7_ScenarioScores ==
    [][ScenarioTake =>
          /\ game.active_player = 2
          /\ ScenarioState(game')
          /\ compute_scores(game') = [p \in 0..2 |-> IF p = 2 THEN -7 ELSE -10]]_vars

\* C7 witness: the state the scenario ends in.
C7_Witness == NumPlayers(game) = 3 /\ ScenarioState(game)

\* The passes the replay of a total t attributes to player j.
PassesBy(cp, t, j) ==
    Cardinality({k \in 0..(t - 1) : (cp.active_player + k) % NumPlayers(cp) = j})

Affordable(cp, t) ==
    \A j \in DOMAIN cp.player_tokens : ~ULt(cp.player_tokens[j], PassesBy(cp, t, j))

\* The step read a total (line 323) and replayed it on the checkpoint.
Reported == tokens' # None

\* C8: from a checkpoint with card c revealed, no tokens on it and player p
\* to move, a total t that every player can afford is replayed as t passes
\* and one take: card c goes to player (p + t) mod n, player j's reserve
\* drops by the number of k < t with (p + k) mod n = j, the taker's rises
\* by t, no tokens and no card stay active, and cards_taken rises by one.
C8_ReconstructionCorrect ==
    [][LET cp == game_at_last_card
           t == unwrap(tokens')
           n == NumPlayers(game_at_last_card)
           taker == (game_at_last_card.active_player + unwrap(tokens')) % n
       IN (/\ Reported
           /\ cp.active_card # None
           /\ unwrap(cp.active_card) \in DOMAIN cp.card_owners
           /\ cp.active_tokens = 0
           /\ Affordable(cp, t))
          => /\ pc' = "loop"
             /\ game' = game_at_last_card'
             /\ game'.card_owners[unwrap(cp.active_card)] = Some(taker)
             /\ \A j \in DOMAIN cp.player_tokens :
                   game'.player_tokens[j]
                     = cp.player_tokens[j] - PassesBy(cp, t, j)
                         + (IF j = taker THEN t ELSE 0)
             /\ game'.active_player = taker
             /\ game'.active_tokens = 0
             /\ game'.active_card = None
             /\ game'.cards_taken = cp.cards_taken + 1]_vars

\* C8 witness: in a three-player game the first card (3) went to player 1,
\* and the second card (4) was replayed from player 1 with a total of 2, so
\* that it went to player 0.
C8_Witness ==
    /\ NumPlayers(game) = 3
    /\ tokens = Some(2)
    /\ game.cards_taken = 2
    /\ game.card_owners[0] = Some(1)
    /\ game.card_owners[1] = Some(0)
    /\ game.player_tokens = [p \in 0..2 |-> 12 - p]
    /\ pc = "loop"

\* C9: a total that asks a pass of a player whose reserve is zero ends the
\* replay in a failure: no pass is applied for that player and the game does
\* not go on.
C9_InconsistentTotalFails ==
    [][(Reported /\ ~Affordable(game_at_last_card, unwrap(tokens')))
          => /\ pc' = "panicked"
             /\ game' = game
             /\ game_at_last_card' = game_at_last_card]_vars

\* C10: a move that is not among available_moves is fatal and yields no
\* successor state; here, the NextCard that with_humans applies for the
\* card typed in.
C10_UnavailableMoveIsFatal ==
    [][RevealStep
          => NextCard(unwrap(game'.active_card)) \in Range(available_moves(game))]_vars

\* C11: new(n) succeeds exactly for n in 3..7, with 11 tokens a player for
\* 3 to 5 players, 9 for 6 and 7 for 7, nothing active, player 0 to move, no
\* card taken or owned; for any other n it fails and constructs no state.
C11_Setup ==
    [][pc = "start" =>
         IF players \in {3, 4, 5, 6, 7}
         THEN /\ pc' = "loop"
              /\ game' = [active_tokens |-> 0,
                          active_card   |-> None,
                          active_player |-> 0,
                          cards_taken   |-> 0,
                          player_tokens |->
                              [p \in 0..(players - 1) |->
                                  IF players <= 5 THEN 11
                                  ELSE IF players = 6 THEN 9 ELSE 7],
                          card_owners   |-> [c \in 0..32 |-> None]]
         ELSE /\ pc' = "panicked"
              /\ game' = None]_vars

\* C11 witness: a seven-player game has been set up, 7 tokens a player.
C11_Witness ==
    /\ pc = "loop"
    /\ players = 7
    /\ game.cards_taken = 0
    /\ game.active_card = None
    /\ game.player_tokens = [p \in 0..6 |-> 7]

\* The step applied a move to a state with a card revealed and took no card:
\* it is a Pass.
PassApplied ==
    /\ game.active_card # None
    /\ game' # game
    /\ game'.cards_taken = game.cards_taken
\* The step applied a move to a state with a card revealed and left none
\* revealed: it is a Take.
TakeApplied ==
    /\ game.active_card # None
    /\ game'.active_card = None

\* C13: a Pass by player p (reserve > 0, card revealed) puts one more token
\* on the card, takes one from p's reserve, hands the turn to (p + 1) mod n,
\* and changes nothing else.
C13_PassTransition ==
    [][(PassApplied /\ ULt(0, game.player_tokens[game.active_player])) =>
         LET p == game.active_player IN
         /\ game'.active_tokens = game.active_tokens + 1
         /\ game'.player_tokens[p] = game.player_tokens[p] - 1
         /\ game'.active_player = (p + 1) % NumPlayers(game)
         /\ game'.active_card = game.active_card
         /\ game'.cards_taken = game.cards_taken
         /\ game'.card_owners = game.card_owners
         /\ DOMAIN game'.player_tokens = DOMAIN game.player_tokens
         /\ \A q \in DOMAIN game.player_tokens \ {p} :
               game'.player_tokens[q] = game.player_tokens[q]]_vars

\* C13 witness: player 0 took the first card at once and has passed on the
\* second, which now carries the token and is before player 1.
C13_Witness ==
    /\ game.cards_taken = 1
    /\ game.active_card # None
    /\ game.active_tokens = 1
    /\ game.active_player = 1
    /\ game.player_tokens[0] = starting_tokens(NumPlayers(game)) - 1

\* C14: a Take by player p of card c adds the tokens on the card to p's
\* reserve, leaves none on the card, records p as the owner of c, leaves no
\* card revealed, counts one more card taken and changes no other reserve
\* and no other owner; a Take right after the NextCard moves no token.
C14_TakeTransition ==
    [][/\ TakeApplied =>
            LET p == game.active_player
                c == unwrap(game.active_card)
            IN /\ game'.player_tokens[p]
                    = game.player_tokens[p] + game.active_tokens
               /\ game'.active_tokens = 0
               /\ game'.card_owners[c] = Some(p)
               /\ game'.active_card = None
               /\ game'.cards_taken = game.cards_taken + 1
               /\ DOMAIN game'.player_tokens = DOMAIN game.player_tokens
               /\ \A q \in DOMAIN game.player_tokens \ {p} :
                     game'.player_tokens[q] = game.player_tokens[q]
               /\ DOMAIN game'.card_owners = DOMAIN game.card_owners
               /\ \A d \in DOMAIN game.card_owners \ {c} :
                     game'.card_owners[d] = game.card_owners[d]
       /\ RevealStep => game'.active_tokens = 0
       /\ (TakeApplied /\ game.active_tokens = 0)
             => game'.player_tokens = game.player_tokens]_vars

\* C14 witness: the first card was taken with tokens on it, which the taker
\* now holds on top of the starting allotment.
C14_Witness ==
    /\ game.cards_taken = 1
    /\ game.active_card = None
    /\ game.active_tokens = 0
    /\ \E p \in DOMAIN game.player_tokens :
          /\ game.player_tokens[p] > starting_tokens(NumPlayers(game))
          /\ \E c \in DOMAIN game.card_owners : game.card_owners[c] = Some(p)

\* C15: NextCard(c) sets active_card = Some(c) for an available card c and
\* changes no other field; the role goes from Chance to Player(active_player).
C15_RevealTransition ==
    [][RevealStep =>
         /\ NextCard(unwrap(game'.active_card)) \in Range(available_moves(game))
         /\ game' = [game EXCEPT !.active_card = game'.active_card]
         /\ current_player(game) = Random
         /\ current_player(game') = Player(game.active_player)]_vars

\* C15 witness: the third card is revealed to a player other than player 0.
C15_Witness ==
    /\ game.cards_taken = 2
    /\ game.active_card # None
    /\ game.active_tokens = 0
    /\ game.active_player # 0
    /\ current_player(game) = Player(game.active_player)

\* The cards that have an owner.
OwnedCards(g) == {c \in DOMAIN g.card_owners : g.card_owners[c] # None}

\* C16: in every state reached from new(n) by legal moves, no card revealed
\* means no tokens on the table.
C16_NoCardNoTokens ==
    game # None => (game.active_card = None => game.active_tokens = 0)

\* C16 witness: a card was taken with tokens on it, and the table is empty
\* again.
C16_Witness ==
    /\ game # None
    /\ game.cards_taken >= 1
    /\ game.active_card = None
    /\ game.active_tokens = 0
    /\ \E p \in DOMAIN game.player_tokens :
          game.player_tokens[p] > starting_tokens(NumPlayers(game))

\* C17: in every state reached from new(n) by legal moves, cards_taken is
\* the number of cards that have an owner.
C17_CardsTakenCountsOwners ==
    game # None => game.cards_taken = Cardinality(OwnedCards(game))

\* C17 witness: a finished game, 24 cards taken and owned, 9 never revealed.
C17_Witness ==
    /\ game # None
    /\ is_terminal(game)
    /\ Cardinality(OwnedCards(game)) = NUM_CARDS - DISCARDED_CARDS
    /\ Cardinality(DOMAIN game.card_owners \ OwnedCards(game)) = DISCARDED_CARDS

\* C18: in with_humans, whenever the replay starts, the checkpoint is the
\* state right after the latest NextCard: it shows the card in play with no
\* tokens on it, and no Pass or Take has touched it since (the game differs
\* from it by the passes made since, and a replay that succeeds leaves no
\* card revealed, so the next replay follows a new reveal).
C18_CheckpointIsLastReveal ==
    [][/\ RevealStep =>
            /\ game_at_last_card' = game'
            /\ game'.active_tokens = 0
       /\ (game.active_card # None /\ ~Reported) =>
            game_at_last_card' = game_at_last_card
       /\ Reported =>
            /\ game_at_last_card.active_card # None
            /\ game_at_last_card.active_card = game.active_card
            /\ game_at_last_card.active_tokens = 0
            /\ game_at_last_card.cards_taken = game.cards_taken
            /\ game_at_last_card.card_owners = game.card_owners
            /\ PassUntil(Ok(game_at_last_card), game.active_tokens) = Ok(game)
            /\ pc' = "loop" =>
                  /\ game'.active_card = None
                  /\ game_at_last_card' = game']_vars

\* C18 witness: a second replay has succeeded, for a total of at least one
\* pass: two cards are taken, none is revealed, and the game is the replayed
\* checkpoint.
C18_Witness ==
    /\ pc = "loop"
    /\ tokens # None
    /\ unwrap(tokens) >= 1
    /\ game.cards_taken = 2
    /\ game.active_card = None
    /\ game_at_last_card = game

\* What is left of a game: the cards still to take, each weighing more than
\* all the tokens of the game, then the reveal still to come or the tokens
\* the players can still pass.
Measure(g) ==
    LET T == AllTokens(g) IN
    (NUM_CARDS - DISCARDED_CARDS - g.cards_taken) * (T + 2)
       + (IF g.active_card = None THEN T + 1 ELSE SumTokens(g))

\* Every available move is applied without failure and lowers the measure,
\* which is never negative.
MovesLowerMeasure ==
    /\ Measure(game) >= 0
    /\ \A mov \in Range(available_moves(game)) :
          LET r == make_move(game, mov) IN
          /\ r.ok
          /\ Measure(r.game) < Measure(game)
          /\ Measure(r.game) >= 0

\* C19: every game terminates: each available move lowers a non-negative
\* measure (so any sequence of legal moves is finite), a game with no move
\* left is terminal, and self_play, which keeps applying legal moves,
\* reaches the end of its loop in a terminal state.
C19_Termination ==
    /\ [](MovesLowerMeasure
            /\ (available_moves(game) = << >> => is_terminal(game))
            /\ (pc = "done" => is_terminal(game))
            /\ pc # "panicked")
    /\ <>(pc = "done")

\* C19 witness: self_play has left its loop after a game in which tokens
\* were passed: the measure is down to the reveal that never comes.
C19_Witness ==
    /\ pc = "done"
    /\ Measure(game) = AllTokens(game) + 1
    /\ \E p \in DOMAIN game.player_tokens :
          game.player_tokens[p] < starting_tokens(NumPlayers(game))

\* C20: ownership is permanent and exclusive: NextCard is offered only for
\* cards without an owner, the card revealed has no owner until it is taken,
\* a card that has an owner keeps it in every later state, and no step
\* reveals a card that has one.
C20_OwnershipPermanent ==
    /\ [](/\ \A mov \in Range(available_moves(game)) :
               mov.kind = "NextCard" => game.card_owners[mov.card] = None
          /\ game.active_card # None =>
               game.card_owners[unwrap(game.active_card)] = None)
    /\ [][/\ \A c \in DOMAIN game.card_owners :
               game.card_owners[c] # None =>
                  game'.card_owners[c] = game.card_owners[c]
          /\ RevealStep =>
               game.card_owners[unwrap(game'.active_card)] = None]_vars

\* C20 witness: cards 0 and 1 have owners and card 3 is revealed, the cards
\* with an owner being out of the draw.
C20_Witness ==
    /\ game.card_owners[0] # None
    /\ game.card_owners[1] # None
    /\ game.cards_taken = 2
    /\ game.active_card = Some(3)
    /\ game.card_owners[3] = None

====
